---- MODULE Spec2Model ----
(***************************************************************************)
(* mailbox-monitor: the assignment decision (main.py), the prediction      *)
(* adapter (ai_client.py) and the reassignment workflow (gitlab_client.py) *)
(* as a state machine.                                                     *)
(*                                                                         *)
(* Python values are modelled as follows.                                  *)
(*  - A dict built by the extractor is a record with a field "keys", the   *)
(*    set of keys the dict holds; d.get(k, default) is Get(d, k, default). *)
(*  - A decoded JSON value is a record [t, s, n]: t is its JSON type, s    *)
(*    its text when it is a string, n its number when it is a number or a  *)
(*    boolean (Python's bool is an int: True is 1, False is 0).            *)
(*  - A confidence is an integer number of hundredths (0.7 is 70).         *)
(*  - A URL is the sequence of the segments of its path.                   *)
(***************************************************************************)
EXTENDS Integers, Sequences, FiniteSets, TLC

(***************************************************************************)
(* JSON values.                                                            *)
(***************************************************************************)
Str(x) == [t |-> "str", s |-> x, n |-> 0]
Num(k) == [t |-> "num", s |-> "", n |-> k]
Bool(b) == [t |-> "bool", s |-> "", n |-> IF b THEN 1 ELSE 0]
Null == [t |-> "null", s |-> "", n |-> 0]
List == [t |-> "list", s |-> "", n |-> 0]
Missing == [t |-> "missing", s |-> "", n |-> 0]

\* key in response
HasKey(v) == v.t # "missing"
\* isinstance(v, str)
IsStr(v) == v.t = "str"
\* isinstance(v, (int, float)): bool is a subclass of int
IsIntOrFloat(v) == v.t \in {"num", "bool"}
\* isinstance(v, list)
IsList(v) == v.t = "list"
\* A boolean counts in hundredths like every other confidence: True is 1.0.
NumberOf(v) == IF v.t = "bool" THEN 100 * v.n ELSE v.n

(***************************************************************************)
(* Notifications (the dict _extract_issue_info returns).                   *)
(***************************************************************************)
NoUrl == <<>>
UrlIssue == <<"team", "backend", "-", "issues", "42">>
UrlSubgroup == <<"team", "sub", "backend", "-", "issues", "42">>
UrlMergeRequest == <<"team", "backend", "-", "merge_requests", "42">>

Notification(keys, url, cur) ==
    [keys |-> keys, url |-> url, current_assignee |-> cur]

\* The notifications of the model. An extracted current_assignee is never
\* empty (its pattern needs one character or more), nor is an extracted url.
Notifications ==
    { Notification({"url", "current_assignee"}, UrlIssue, "alice"),
      Notification({"url", "current_assignee"}, UrlIssue, "bob"),
      Notification({"url"}, UrlIssue, ""),
      Notification({"current_assignee"}, NoUrl, "alice"),
      Notification({"url", "current_assignee"}, UrlSubgroup, "alice"),
      Notification({"url", "current_assignee"}, UrlMergeRequest, "alice") }

\* d.get(k, default)
Get(d, k, default) == IF k \in d.keys THEN d[k] ELSE default

(***************************************************************************)
(* The prediction service.                                                 *)
(***************************************************************************)
Response(rec, conf, reasoning, alt) ==
    [recommended_assignee |-> rec, confidence |-> conf,
     reasoning |-> reasoning, alternatives |-> alt]

NoResponse == Response(Missing, Missing, Missing, Missing)

\* What one POST to /predict-assignee ends in: a transport error or timeout,
\* an HTTP error status, a body that is no JSON, or a decoded JSON object.
AIOutcome(kind, body) == [kind |-> kind, body |-> body]

AIOutcomes ==
    { AIOutcome("timeout", NoResponse),
      AIOutcome("http_error", NoResponse),
      AIOutcome("bad_json", NoResponse) }
    \cup
    { AIOutcome("ok", b) : b \in
        { Response(Missing, Num(90), Missing, Missing),
          Response(Str("bob"), Num(55), Str("owns the module"), List),
          Response(Str("bob"), Num(70), Missing, Missing),
          Response(Str("bob"), Num(90), Str("owns the module"), List),
          Response(Str("alice"), Num(90), Str(""), Missing),
          Response(Str("bob"), Missing, Missing, Missing),
          Response(Str("carol"), Num(90), Missing, Missing),
          Response(Str(""), Num(90), Missing, Missing),
          Response(Str("bob"), Bool(TRUE), Missing, Missing),
          Response(Str("bob"), Str("high"), Missing, Missing) } }

\* The prediction service was not asked.
NotAsked == AIOutcome("not_asked", NoResponse)

NoPrediction == [ok |-> FALSE, result |-> NoResponse]

\* AIClient._validate_prediction_response
_validate_prediction_response(response) ==
    IF ~HasKey(response.recommended_assignee) THEN FALSE
    ELSE IF ~IsStr(response.recommended_assignee) THEN FALSE
    ELSE IF HasKey(response.confidence) /\ ~IsIntOrFloat(response.confidence)
         THEN FALSE
    ELSE IF HasKey(response.alternatives) /\ ~IsList(response.alternatives)
         THEN FALSE
    ELSE TRUE

\* predict_assignee returning the decoded body without validating it.
predict_assignee_unvalidated(ai) ==
    IF ai.kind # "ok" THEN NoPrediction
    ELSE [ok |-> TRUE, result |-> ai.body]

\* AIClient.predict_assignee: one request, and None on every failure.
predict_assignee(ai) ==
    IF ai.kind # "ok" THEN NoPrediction
    ELSE IF _validate_prediction_response(ai.body)
         THEN [ok |-> TRUE, result |-> ai.body]
    ELSE NoPrediction

(***************************************************************************)
(* The tracker (GitLab) and GitLabClient.                                  *)
(***************************************************************************)
\* The usernames of the members of project team/backend.
Members == {"alice", "bob"}
\* The assignee of an issue nobody is assigned to (issue.assignee is None).
NoAssignee == "None"
Assignees == Members \cup {NoAssignee}

\* What the tracker answers to the calls of one workflow execution. The
\* workflow stops at the first call that fails, so an execution is decided by
\* which call fails first, and how:
\*   members:  project.members.list  "ok" | "empty" | "error"
\*   issue:    the re-fetch of the issue  "ok" | "error"
\*   reassign: reassign_issue  "ok" | "error" (a call of it raises) | "no_user"
\*   comment:  issue.notes.create  "ok" | "error"
AllOk == [members |-> "ok", issue |-> "ok", reassign |-> "ok", comment |-> "ok"]

TrackerOutcomes ==
    {AllOk}
    \cup {[AllOk EXCEPT !.members = x] : x \in {"empty", "error"}}
    \cup {[AllOk EXCEPT !.issue = "error"]}
    \cup {[AllOk EXCEPT !.reassign = x] :
            x \in {"error", "no_user"}}
    \cup {[AllOk EXCEPT !.comment = "error"]}

\* int(match.group(2))
ToInt(tok) == CASE tok = "42" -> 42 [] tok = "7" -> 7 [] OTHER -> 0
\* \d+
IsDigits(tok) == tok \in {"42", "7"}

NotParsed == [ok |-> FALSE, project_path |-> <<>>, issue_iid |-> 0]

\* re.match(pattern, path) for '^/([^/]+/[^/]+)<infix>/<kind>/(\d+)': the
\* first two segments are the project, the next ones must be the infix, the
\* kind and the digits.
MatchUrl(path, dash, kind) ==
    IF dash
    THEN /\ Len(path) >= 5
         /\ path[3] = "-" /\ path[4] = kind /\ IsDigits(path[5])
    ELSE /\ Len(path) >= 4
         /\ path[3] = kind /\ IsDigits(path[4])

Parsed(path, dash) ==
    [ok |-> TRUE, project_path |-> <<path[1], path[2]>>,
     issue_iid |-> ToInt(path[IF dash THEN 5 ELSE 4])]

\* GitLabClient.parse_issue_url: the four patterns in their order.
parse_issue_url(issue_url) ==
    IF MatchUrl(issue_url, TRUE, "issues") THEN Parsed(issue_url, TRUE)
    ELSE IF MatchUrl(issue_url, FALSE, "issues") THEN Parsed(issue_url, FALSE)
    ELSE IF MatchUrl(issue_url, TRUE, "merge_requests")
         THEN Parsed(issue_url, TRUE)
    ELSE IF MatchUrl(issue_url, FALSE, "merge_requests")
         THEN Parsed(issue_url, FALSE)
    ELSE NotParsed

\* The one issue the tracker holds (project.issues.get(issue_iid) finds it);
\* the project has no merge request.
TrackerHas(project_path, issue_iid) ==
    project_path = <<"team", "backend">> /\ issue_iid = 42

\* GitLabClient.get_project_members: the list, or None on an error.
get_project_members(project_path, env) ==
    IF env.members = "error" THEN [ok |-> FALSE, list |-> {}]
    ELSE IF env.members = "empty" THEN [ok |-> TRUE, list |-> {}]
    ELSE [ok |-> TRUE, list |-> Members]

\* validate_assignee accepting every username.
validate_assignee_anyone(project_path, username, env) == TRUE

\* validate_assignee with the membership test left out.
validate_assignee_unlisted(project_path, username, env) ==
    LET members == get_project_members(project_path, env)
    IN  members.ok /\ members.list # {}

\* GitLabClient.validate_assignee
validate_assignee(project_path, username, env) ==
    LET members == get_project_members(project_path, env)
    IN  IF ~members.ok \/ members.list = {} THEN FALSE
        ELSE username \in members.list

\* get_issue without the issue's assignee.
get_issue_unassigned(project_path, issue_iid, trk, env) ==
    IF env.issue = "ok" /\ TrackerHas(project_path, issue_iid)
    THEN [ok |-> TRUE, assignee |-> NoAssignee]
    ELSE [ok |-> FALSE, assignee |-> NoAssignee]

\* GitLabClient.get_issue: project.issues.get(issue_iid), the data of the
\* issue of that id, or None on an error.
get_issue(project_path, issue_iid, trk, env) ==
    IF env.issue = "ok" /\ TrackerHas(project_path, issue_iid)
    THEN [ok |-> TRUE, assignee |-> trk.assignee]
    ELSE [ok |-> FALSE, assignee |-> NoAssignee]

\* reassign_issue reporting success whatever happened.
reassign_issue_always_true(project_path, issue_iid, new_assignee, trk, env) ==
    IF env.reassign = "ok" /\ TrackerHas(project_path, issue_iid)
    THEN [ok |-> TRUE, tracker |-> [trk EXCEPT !.assignee = new_assignee]]
    ELSE [ok |-> TRUE, tracker |-> trk]

\* GitLabClient.reassign_issue: True once issue.save() has returned.
reassign_issue(project_path, issue_iid, new_assignee, trk, env) ==
    IF env.reassign = "error" \/ ~TrackerHas(project_path, issue_iid)
    THEN [ok |-> FALSE, tracker |-> trk]
    ELSE IF env.reassign = "no_user" THEN [ok |-> FALSE, tracker |-> trk]
    ELSE [ok |-> TRUE, tracker |-> [trk EXCEPT !.assignee = new_assignee]]

\* GitLabClient.add_issue_comment
add_issue_comment(project_path, issue_iid, comment, env) ==
    env.comment = "ok"

\* A comment is the sequence of its lines; a line is what it is, and for the
\* sentence the two usernames in it, for the reasoning its text.
Line(kind, a, b) == [kind |-> kind, a |-> a, b |-> b]

NoComment == <<>>

\* What one execution of the workflow did: its return value, the return
\* statement it left by, the client methods it called in their order, the
\* tracker afterwards, and whether the assignee was changed and the comment
\* posted.
Workflow(ret, exit, calls, trk, mutated, commented, comment) ==
    [ret |-> ret, exit |-> exit, calls |-> calls, tracker |-> trk,
     mutated |-> mutated, commented |-> commented, comment |-> comment]

NotInvoked(trk) == Workflow(FALSE, "not_invoked", <<>>, trk, FALSE, FALSE, NoComment)

\* bool(ai_reasoning)
Truthy(v) ==
    CASE v.t = "str" -> v.s # ""
      [] v.t \in {"num", "bool"} -> v.n # 0
      [] OTHER -> FALSE

\* f"{ai_reasoning}"
Formatted(v) ==
    CASE v.t = "str" -> v.s
      [] v.t = "num" -> ToString(v.n)
      [] v.t = "bool" -> IF v.n = 1 THEN "True" ELSE "False"
      [] OTHER -> "None"

\* The comment with the reasoning section whatever ai_reasoning is.
comment_parts_with_reasoning(current_assignee, new_assignee, ai_reasoning) ==
    << Line("Automated Assignment Update", "", ""),
       Line("", "", ""),
       Line("reassigned from to",
            IF current_assignee \in {NoAssignee, ""}
            THEN "unassigned" ELSE current_assignee,
            new_assignee),
       Line("", "", ""),
       Line("AI Reasoning:", "", ""),
       Line("reasoning", Formatted(ai_reasoning), ""),
       Line("", "", ""),
       Line("---", "", ""),
       Line("made automatically by the mailbox-monitor service", "", "") >>

\* comment_parts in process_reassignment: the header, the sentence with
\* current_assignee or 'unassigned' and new_assignee, the reasoning section
\* if ai_reasoning, then the separator and the footer.
comment_parts(current_assignee, new_assignee, ai_reasoning) ==
    << Line("Automated Assignment Update", "", ""),
       Line("", "", ""),
       Line("reassigned from to",
            IF current_assignee \in {NoAssignee, ""}
            THEN "unassigned" ELSE current_assignee,
            new_assignee) >>
    \o (IF Truthy(ai_reasoning)
        THEN << Line("", "", ""),
                Line("AI Reasoning:", "", ""),
                Line("reasoning", Formatted(ai_reasoning), "") >>
        ELSE <<>>)
    \o << Line("", "", ""),
          Line("---", "", ""),
          Line("made automatically by the mailbox-monitor service", "", "") >>

\* The workflow failing when the comment was not posted.
reassigned_outcome_needs_comment(posted) == posted

\* The workflow's return value once reassign_issue has succeeded: the result
\* of add_issue_comment is dropped, and True is returned.
reassigned_outcome(posted) == TRUE

\* The check of the live assignee left out.
is_assigned_to_unchecked(current_assignee, new_assignee) == FALSE

\* process_reassignment's check of the re-fetched issue:
\* current_assignee == new_assignee
is_assigned_to(current_assignee, new_assignee) ==
    current_assignee = new_assignee

\* GitLabClient.process_reassignment
process_reassignment(issue_url, new_assignee, ai_reasoning, trk, env) ==
    LET parsed == parse_issue_url(issue_url)
        project_path == parsed.project_path
        issue_iid == parsed.issue_iid
        current_issue == get_issue(project_path, issue_iid, trk, env)
        current_assignee == current_issue.assignee
        reassigned == reassign_issue(project_path, issue_iid, new_assignee, trk, env)
        comment == comment_parts(current_assignee, new_assignee, ai_reasoning)
    IN  IF ~parsed.ok
        THEN Workflow(FALSE, "url_unparseable", <<>>, trk, FALSE, FALSE, NoComment)
        ELSE IF ~validate_assignee(project_path, new_assignee, env)
        THEN Workflow(FALSE, "not_eligible", <<"get_project_members">>,
                      trk, FALSE, FALSE, NoComment)
        ELSE IF ~current_issue.ok
        THEN Workflow(FALSE, "issue_not_fetched",
                      <<"get_project_members", "get_issue">>,
                      trk, FALSE, FALSE, NoComment)
        ELSE IF is_assigned_to(current_assignee, new_assignee)
        THEN Workflow(TRUE, "already_assigned",
                      <<"get_project_members", "get_issue">>,
                      trk, FALSE, FALSE, NoComment)
        ELSE IF ~reassigned.ok
        THEN Workflow(FALSE, "reassign_failed",
                      <<"get_project_members", "get_issue", "reassign_issue">>,
                      trk, FALSE, FALSE, NoComment)
        ELSE Workflow(reassigned_outcome(
                          add_issue_comment(project_path, issue_iid, comment, env)),
                      "reassigned",
                      <<"get_project_members", "get_issue", "reassign_issue",
                        "add_issue_comment">>,
                      reassigned.tracker, reassigned.tracker # trk,
                      add_issue_comment(project_path, issue_iid, comment, env),
                      IF add_issue_comment(project_path, issue_iid, comment, env)
                      THEN comment ELSE NoComment)

(***************************************************************************)
(* EmailMonitor._extract_issue_info. A subject and a body are modelled by  *)
(* what the searches of the extractor find in them: for each field, the    *)
(* text the field's patterns capture, or no match.                         *)
(***************************************************************************)
\* re.search(...) is None
NoMatch == [found |-> FALSE, text |-> ""]
\* re.search(...) matches, and the field's text is t
Match(t) == [found |-> TRUE, text |-> t]

\* The fields searched in the subject, and those searched in the body.
SubjectFields == {"title", "issue_number"}
BodyFields == {"url", "current_assignee", "description", "labels", "project"}

\* The text each field has, where it has one. A description may be captured
\* empty (its group is (.*?)).
FieldText ==
    [title |-> "Fix login bug", issue_number |-> "42",
     url |-> "https://git.example.com/team/backend/-/issues/42",
     current_assignee |-> "alice", description |-> "",
     labels |-> "bug", project |-> "backend"]

\* The text in which exactly the fields of found have a match.
Text(fields, found) ==
    [f \in fields |-> IF f \in found THEN Match(FieldText[f]) ELSE NoMatch]

Subjects == {Text(SubjectFields, found) : found \in SUBSET SubjectFields}
Bodies == {Text(BodyFields, found) : found \in SUBSET BodyFields}
Emails == [subject : Subjects, body : Bodies]

\* The extractor's return value: None (none |-> TRUE), or the dict issue_info
\* with its keys and their values.
None == [none |-> TRUE, keys |-> {}, values |-> <<>>]
IssueInfo(values) == [none |-> FALSE, keys |-> DOMAIN values, values |-> values]

\* return issue_info if issue_info else None
returns_if_nonempty(issue_info) ==
    IF DOMAIN issue_info # {} THEN IssueInfo(issue_info) ELSE None

\* EmailMonitor._extract_issue_info: every field whose search matches is
\* stored under its key.
_extract_issue_info(subject, body) ==
    LET searched == [f \in SubjectFields \cup BodyFields |->
                        IF f \in SubjectFields THEN subject[f] ELSE body[f]]
        stored == {f \in DOMAIN searched : searched[f].found}
        issue_info == [f \in stored |-> searched[f].text]
    IN  returns_if_nonempty(issue_info)

(***************************************************************************)
(* Texts. A text is the sequence of its characters.                        *)
(***************************************************************************)
UpperLetters ==
    << "A", "B", "C", "D", "E", "F", "G", "H", "I", "J", "K", "L", "M",
       "N", "O", "P", "Q", "R", "S", "T", "U", "V", "W", "X", "Y", "Z" >>
LowerLetters ==
    << "a", "b", "c", "d", "e", "f", "g", "h", "i", "j", "k", "l", "m",
       "n", "o", "p", "q", "r", "s", "t", "u", "v", "w", "x", "y", "z" >>

\* str.lower() left out: the text as it is.
lower_as_is(s) == s

\* str.lower()
lower(s) ==
    [i \in 1..Len(s) |->
        IF \E k \in 1..Len(UpperLetters) : UpperLetters[k] = s[i]
        THEN LowerLetters[CHOOSE k \in 1..Len(UpperLetters) :
                              UpperLetters[k] = s[i]]
        ELSE s[i]]

\* sub in s
In(sub, s) ==
    \E i \in 0..(Len(s) - Len(sub)) : \A j \in 1..Len(sub) : s[i + j] = sub[j]

Senders ==
    { <<"g", "i", "t", "l", "a", "b", "@", "x", ".", "i", "o">>,
      <<"G", "i", "t", "L", "a", "b", "@", "x", ".", "i", "o">>,
      <<"n", "o", "@", "G", "I", "T", "L", "A", "B", ".", "i", "o">>,
      <<"g", "i", "t", ".", "l", "a", "b", "@", "x", ".", "i", "o">>,
      <<"b", "o", "b", "@", "x", ".", "i", "o">>,
      <<>> }
GateSubjects ==
    { <<"B", "o", "b", " ", "a", "s", "s", "i", "g", "n", "e", "d", " ", "y", "o", "u", " ", "#", "7">>,
      <<"A", "S", "S", "I", "G", "N", "E", "D", " ", "Y", "O", "U">>,
      <<"A", "s", "s", "i", "g", "n", "e", "e", " ", "C", "h", "a", "n", "g", "e", "d">>,
      <<"w", "a", "s", " ", "a", "s", "s", "i", "g", "n", "e", "d", " ", "t", "o", " ", "y", "o", "u">>,
      <<"W", "a", "s", " ", "A", "s", "s", "i", "g", "n", "e", "d", " ", "T", "o", " ", "Y", "o", "u">>,
      <<"a", "s", "s", "i", "g", "n", "e", "d", " ", "t", "o", " ", "y", "o", "u">>,
      <<"a", "s", "s", "i", "g", "n", "e", "e", " ", " ", "c", "h", "a", "n", "g", "e", "d">>,
      <<"h", "e", "l", "l", "o">>,
      <<>> }

\* EmailMonitor._is_gitlab_assignment_email: any(gitlab_indicators)
_is_gitlab_assignment_email(subject, sender) ==
    LET gitlab_indicators ==
            << In(<<"g", "i", "t", "l", "a", "b">>, lower(sender)),
               In(<<"a", "s", "s", "i", "g", "n", "e", "d", " ", "y", "o", "u">>, lower(subject)),
               In(<<"a", "s", "s", "i", "g", "n", "e", "e", " ", "c", "h", "a", "n", "g", "e", "d">>, lower(subject)),
               In(<<"w", "a", "s", " ", "a", "s", "s", "i", "g", "n", "e", "d", " ", "t", "o", " ", "y", "o", "u">>, lower(subject)) >>
    IN  \E i \in 1..Len(gitlab_indicators) : gitlab_indicators[i]

\* The messages the gate is given: a sender, a subject, whether the message
\* has a text body, and whether _extract_issue_info finds a field in it.
GateInputs ==
    [what : {"gate"}, sender : Senders, subject : GateSubjects,
     body : BOOLEAN, fields : BOOLEAN]

\* EmailMonitor._parse_gitlab_email on the message email_message: the gate,
\* then _extract_email_body, then _extract_issue_info when the body is not
\* empty; None unless issue_info is a dict with a key. calls are the
\* extraction steps it reached.
_parse_gitlab_email_message(email_message) ==
    IF ~_is_gitlab_assignment_email(email_message.subject, email_message.sender)
    THEN [what |-> "gate", calls |-> <<>>, parsed |-> FALSE]
    ELSE IF ~email_message.body
    THEN [what |-> "gate", calls |-> <<"_extract_email_body">>,
          parsed |-> FALSE]
    ELSE [what |-> "gate",
          calls |-> <<"_extract_email_body", "_extract_issue_info">>,
          parsed |-> email_message.fields]

\* The links of a body: after scheme and host, the segments of the path of a
\* project in no group, in a group or in a subgroup, the '-' infix or none, a
\* kind, an id, and what may follow them.
UrlInputs ==
    [what : {"url"},
     path :
        { prefix \o infix \o <<kind, id>> \o suffix :
            prefix \in {<<"backend">>, <<"team", "backend">>,
                        <<"team", "sub", "backend">>},
            infix \in {<<>>, <<"-">>},
            kind \in {"issues", "merge_requests", "pipelines"},
            id \in {"42", "7", "new"},
            suffix \in {<<>>, <<"designs">>, <<"issues", "7">>} }]

NoUrlMatch == [found |-> FALSE, path |-> <<>>]

\* re.search(r'https?://[^\s]+/(?:issues|merge_requests)/\d+', body) on a
\* link: [^\s]+ is greedy, so the match ends with the last kind followed by
\* digits, and whatever precedes that kind is taken.
url_match(path) ==
    LET ends == {k \in 1..(Len(path) - 1) :
                    /\ path[k] \in {"issues", "merge_requests"}
                    /\ IsDigits(path[k + 1])}
    IN  IF ends = {} THEN NoUrlMatch
        ELSE LET k == CHOOSE k \in ends : \A other \in ends : other <= k
             IN  [found |-> TRUE, path |-> SubSeq(path, 1, k + 1)]

\* issue_info['url'] = url_match.group(), and what step 1 of
\* process_reassignment makes of that url.
extract_and_resolve(path) ==
    LET stored == url_match(path)
    IN  [what |-> "url", url |-> stored,
         resolved |-> IF stored.found THEN parse_issue_url(stored.path)
                      ELSE NotParsed]

\* The subject formats.
Formats ==
    { <<"I", "s", "s", "u", "e", " ", "#", "4", "2", ":", " ", "F", "i",
        "x", " ", "l", "o", "g", "i", "n", " ", "b", "u", "g", " ", "|",
        " ", "b", "a", "c", "k", "e", "n", "d">>,
      <<"F", "i", "x", " ", "b", "u", "g", " ", "(", "#", "4", "2", ")",
        " ", "|", " ", "b", "a", "c", "k", "e", "n", "d">>,
      <<"F", "i", "x", " ", "b", "u", "g", " ", "-", " ", "I", "s", "s",
        "u", "e", " ", "#", "4", "2">>,
      <<"F", "i", "x", " ", "b", "u", "g", " ", "|", " ", "b", "a", "c",
        "k", "e", "n", "d">>,
      <<"F", "i", "x", " ", "b", "u", "g">>,
      <<"I", "s", "s", "u", "e", " ", "#", "7", ":", " ", " ", "|">> }

\* The subjects: a format with what a mail client or the tracker puts before
\* and after it.
SubjectInputs ==
    [what : {"subject"},
     subject :
        { before \o format \o after :
            before \in { <<>>, <<"R", "e", ":", " ">> },
            format \in Formats,
            after \in { <<>>, <<" ", "(", "c", "l", "o", "s", "e", "d", ")">>,
                        <<" ", "|", " ", "x">> } }]

Digits == {"0", "1", "2", "3", "4", "5", "6", "7", "8", "9"}

\* The text lit stands in s at position p.
Lit(s, p, lit) ==
    /\ p + Len(lit) - 1 <= Len(s)
    /\ \A j \in 1..Len(lit) : s[p + j - 1] = lit[j]

\* s has whitespace only from position p up to position q, q left out.
Ws(s, p, q) == \A j \in p..(q - 1) : s[j] = " "

\* \d+ at position p of s: the position after the digits, 0 without a digit.
DigitsEnd(s, p) ==
    LET ends == {q \in (p + 1)..(Len(s) + 1) :
                    /\ \A j \in p..(q - 1) : s[j] \in Digits
                    /\ q <= Len(s) => s[q] \notin Digits}
    IN  IF ends = {} THEN 0 ELSE CHOOSE q \in ends : TRUE

\* 'Issue #\d+:' at position p of s: the position after it, 0 without match.
HeadEnd(s, p) ==
    LET d == IF Lit(s, p, <<"I", "s", "s", "u", "e", " ", "#">>)
             THEN DigitsEnd(s, p + 7) ELSE 0
    IN  IF d # 0 /\ Lit(s, d, <<":">>) THEN d + 1 ELSE 0

\* '\s*\|' at position p of s: the position after it, 0 without match.
BarEnd(s, p) ==
    LET bars == {q \in p..Len(s) : Ws(s, p, q) /\ s[q] = "|"}
    IN  IF bars = {} THEN 0 ELSE (CHOOSE q \in bars : TRUE) + 1

\* '\s*\(#\d+\)\s*\|' at position p of s: the position after it, or 0.
NumberBarEnd(s, p) ==
    LET opens == {q \in p..Len(s) : Ws(s, p, q) /\ Lit(s, q, <<"(", "#">>)}
        d == IF opens = {} THEN 0
             ELSE DigitsEnd(s, (CHOOSE q \in opens : TRUE) + 2)
    IN  IF d # 0 /\ Lit(s, d, <<")">>) THEN BarEnd(s, d + 1) ELSE 0

\* '\s*-\s*Issue #\d+' at position p of s: the position after it, or 0.
DashIssueEnd(s, p) ==
    LET dashes == {q \in p..Len(s) : Ws(s, p, q) /\ s[q] = "-"}
        after == IF dashes = {} THEN 0 ELSE (CHOOSE q \in dashes : TRUE) + 1
        issues == {r \in after..Len(s) :
                      /\ after # 0 /\ Ws(s, after, r)
                      /\ Lit(s, r, <<"I", "s", "s", "u", "e", " ", "#">>)}
    IN  IF issues = {} THEN 0
        ELSE DigitsEnd(s, (CHOOSE r \in issues : TRUE) + 7)

\* What follows the group (.+?) in pattern k of title_patterns, at position
\* p of s: the position after it, 0 without match.
TailEnd(k, s, p) ==
    CASE k = 1 -> BarEnd(s, p)
      [] k = 2 -> NumberBarEnd(s, p)
      [] k = 3 -> DashIssueEnd(s, p)
      [] k = 4 -> BarEnd(s, p)

\* The ways pattern k of title_patterns matches in s: the position the match
\* starts at, the positions the group (.+?) starts at and stops before, and
\* the position the match stops before.
Matches(k, s) ==
    { mt \in [start : 1..Len(s), from : 1..Len(s), to : 2..(Len(s) + 1),
              end : {TailEnd(k, s, p) : p \in 2..(Len(s) + 1)} \ {0}] :
        /\ mt.from < mt.to
        /\ mt.end = TailEnd(k, s, mt.to)
        /\ IF k = 1
           THEN /\ HeadEnd(s, mt.start) # 0
                /\ HeadEnd(s, mt.start) <= mt.from
                /\ Ws(s, HeadEnd(s, mt.start), mt.from)
           ELSE mt.from = mt.start }

\* The match the regex engine reports among ms: the leftmost one; of these
\* the one whose \s* before the group is longest (greedy); of these the one
\* whose group is shortest (lazy).
Preferred(ms) ==
    CHOOSE mt \in ms : \A other \in ms :
        \/ mt.start < other.start
        \/ mt.start = other.start /\ mt.from > other.from
        \/ mt.start = other.start /\ mt.from = other.from /\ mt.to <= other.to

\* str.strip()
strip(t) ==
    LET inked == {i \in 1..Len(t) : t[i] # " "}
    IN  IF inked = {} THEN <<>>
        ELSE SubSeq(t, CHOOSE i \in inked : \A j \in inked : i <= j,
                       CHOOSE i \in inked : \A j \in inked : j <= i)

NoText == [found |-> FALSE, text |-> <<>>]
Found(t) == [found |-> TRUE, text |-> t]

\* re.search(pattern, subject) for pattern k of title_patterns
search(k, s) == Matches(k, s)

\* The loop over title_patterns: match.group(1).strip() for the first pattern
\* with a match.
title_of(subject) ==
    LET matching == {k \in 1..4 : search(k, subject) # {}}
    IN  IF matching = {} THEN NoText
        ELSE LET k == CHOOSE k \in matching : \A j \in matching : k <= j
                 match == Preferred(search(k, subject))
             IN  Found(strip(SubSeq(subject, match.from, match.to - 1)))

\* re.search(r'#(\d+)', subject): the digits after the first '#' that has a
\* digit after it.
issue_number_of(subject) ==
    LET hashes == {p \in 1..Len(subject) :
                      subject[p] = "#" /\ DigitsEnd(subject, p + 1) # 0}
    IN  IF hashes = {} THEN NoText
        ELSE LET p == CHOOSE p \in hashes : \A q \in hashes : p <= q
             IN  Found(SubSeq(subject, p + 1, DigitsEnd(subject, p + 1) - 1))

\* The title and the issue number _extract_issue_info takes from a subject.
extract_from_subject(subject) ==
    [what |-> "subject", title |-> title_of(subject),
     issue_number |-> issue_number_of(subject)]

\* The keys of payload['issue'] that are always set, and those copied when
\* issue_data has them.
IssueKeys ==
    {"title", "description", "labels", "current_assignee", "project", "url",
     "issue_number"}
OptionalKeys == {"priority", "milestone"}

\* A value for each key of issue_data; labels are a list.
IssueValues ==
    [title |-> "Fix login bug", description |-> "Login fails",
     labels |-> <<"bug", "auth">>, current_assignee |-> "alice",
     project |-> "backend",
     url |-> "https://git.example.com/team/backend/-/issues/42",
     issue_number |-> "42", priority |-> "high", milestone |-> "v2",
     sender |-> "gitlab@x.io"]

\* The dicts predict_assignee is given: every choice of keys.
IssueData ==
    {[k \in keys |-> IssueValues[k]] : keys \in SUBSET DOMAIN IssueValues}

PayloadInputs == [what : {"payload"}, issue_data : IssueData]

\* issue_data.get(k, default)
get(issue_data, k, default) ==
    IF k \in DOMAIN issue_data THEN issue_data[k] ELSE default

\* The payload with priority and milestone set whether issue_data has them
\* or not.
_prepare_prediction_payload_all_keys(issue_data) ==
    [issue |->
        [k \in IssueKeys \cup OptionalKeys |->
            IF k = "labels" THEN get(issue_data, k, <<>>)
            ELSE get(issue_data, k, "")]]

\* AIClient._prepare_prediction_payload: the seven keys with their defaults,
\* then priority and milestone when issue_data has them.
_prepare_prediction_payload(issue_data) ==
    [issue |->
        [k \in IssueKeys \cup (OptionalKeys \cap DOMAIN issue_data) |->
            IF k \in OptionalKeys THEN issue_data[k]
            ELSE IF k = "labels" THEN get(issue_data, k, <<>>)
            ELSE get(issue_data, k, "")]]

(***************************************************************************)
(* MailboxMonitor.process_gitlab_notification.                             *)
(***************************************************************************)
\* config['app']: min_confidence in hundredths, and dry_run.
Policies == [min_confidence : {0, 70}, dry_run : BOOLEAN]

\* What one call of process_gitlab_notification did. action names the branch
\* it left by: "Skip" (no workflow, not the dry-run branch), "SimulateApply"
\* (the dry-run branch) or "Apply" (process_reassignment was called); reason
\* names the log message of that branch. ai_calls counts the requests sent to
\* the prediction service, wf is the workflow's execution.
Processed(action, reason, ret, ai_calls, prediction, wf) ==
    [action |-> action, reason |-> reason, ret |-> ret, ai_calls |-> ai_calls,
     prediction |-> prediction, wf |-> wf]

\* The url check left out.
no_url_unchecked(email_data) == FALSE

\* not email_data.get('url')
no_url(email_data) == Get(email_data, "url", NoUrl) = NoUrl

\* ai_prediction.get('confidence', 0), in hundredths
confidence_of(result) ==
    IF HasKey(result.confidence) THEN NumberOf(result.confidence) ELSE 0

\* The threshold check with <= for <.
below_threshold_inclusive(confidence, config) ==
    confidence <= config.min_confidence

\* The threshold check with > for <.
below_threshold_inverted(confidence, config) ==
    confidence > config.min_confidence

\* confidence < self.config['app']['min_confidence']
below_threshold(confidence, config) == confidence < config.min_confidence

\* The check of the email's assignee left out.
already_assigned_unchecked(email_data, recommended_assignee) == FALSE

\* email_data.get('current_assignee', '') == recommended_assignee
already_assigned(email_data, recommended_assignee) ==
    Get(email_data, "current_assignee", "") = recommended_assignee

process_gitlab_notification(email_data, config, ai, trk, env) ==
    LET ai_prediction == predict_assignee(ai)
        recommended_assignee == ai_prediction.result.recommended_assignee.s
        confidence == confidence_of(ai_prediction.result)
        reasoning ==
            IF HasKey(ai_prediction.result.reasoning)
            THEN ai_prediction.result.reasoning ELSE Str("")
        success == process_reassignment(email_data.url, recommended_assignee,
                                        reasoning, trk, env)
    IN  IF no_url(email_data)
        THEN Processed("Skip", "no_url", FALSE, 0, NoPrediction, NotInvoked(trk))
        ELSE IF ~ai_prediction.ok
        THEN Processed("Skip", "no_prediction", FALSE, 1, NoPrediction,
                       NotInvoked(trk))
        ELSE IF below_threshold(confidence, config)
        THEN Processed("Skip", "low_confidence", FALSE, 1, ai_prediction,
                       NotInvoked(trk))
        ELSE IF already_assigned(email_data, recommended_assignee)
        THEN Processed("Skip", "already_assigned", TRUE, 1, ai_prediction,
                       NotInvoked(trk))
        ELSE IF config.dry_run
        THEN Processed("SimulateApply", "dry_run", TRUE, 1, ai_prediction,
                       NotInvoked(trk))
        ELSE Processed("Apply", "reassignment", success.ret, 1, ai_prediction,
                       success)

(***************************************************************************)
(* EmailMonitor: the mailbox and the IMAP connection. conn is "none" while *)
(* self.connection is None; otherwise it is the state of the session the   *)
(* connection object holds: "auth" (logged in), "selected" (a mailbox is   *)
(* selected), "logout" (logged out) or "dead" (the socket is broken).      *)
(***************************************************************************)
Messages == {"m1", "m2", "m3"}

\* _parse_gitlab_email(email_message): the dict of the message, or None
\* (parsed |-> FALSE) for a message it makes nothing of.
_parse_gitlab_email(m) ==
    CASE m = "m1" ->
            [parsed |-> TRUE,
             n |-> Notification({"url", "current_assignee"}, UrlIssue, "alice")]
      [] m = "m3" ->
            [parsed |-> TRUE,
             n |-> Notification({"url", "current_assignee"}, UrlIssue, "bob")]
      [] OTHER -> [parsed |-> FALSE, n |-> Notification({}, NoUrl, "")]

\* EmailMonitor.connect: a new logged-in connection, or False with
\* self.connection left as it was.
connect(c, up) ==
    IF up THEN [ok |-> TRUE, conn |-> "auth"] ELSE [ok |-> FALSE, conn |-> c]

\* EmailMonitor.disconnect: close() then logout(), any error logged. close()
\* is legal with a mailbox selected only, and raises in every other state
\* before logout() is reached; self.connection keeps the object.
disconnect(c) == IF c = "selected" THEN "logout" ELSE c

\* The index of the message m in the mailbox box.
IndexOf(box, m) == CHOOSE i \in 1..Len(box) : box[i].m = m

\* A search that leaves UNSEEN out: every message of the mailbox.
search_unseen_seen_too(box) == 1..Len(box)

\* self.connection.search(None, '(UNSEEN FROM "gitlab")'): the numbers of the
\* unread messages (every message of the model is the tracker's).
search_unseen(box) == {i \in 1..Len(box) : ~box[i].seen}

\* self.connection.fetch(num, '(RFC822)') for each number found. The mailbox
\* is selected for writing and RFC822 is BODY[], not BODY.PEEK[]: the server
\* sets \Seen on every message fetched.
fetch_rfc822(box, nums) ==
    [i \in 1..Len(box) |->
        IF i \in nums THEN [box[i] EXCEPT !.seen = TRUE] ELSE box[i]]

\* The messages found that are parsed, in the order of the mailbox.
NewEmails(box) ==
    LET nums == search_unseen(box)
        parsed == {i \in nums : _parse_gitlab_email(box[i].m).parsed}
        Nth(n) == CHOOSE i \in parsed :
                      Cardinality({j \in parsed : j <= i}) = n
    IN  [n \in 1..Cardinality(parsed) |-> box[Nth(n)].m]

\* self.connection.store(num, '+FLAGS', '\\Seen') for each message found
\* that is parsed.
MarkSeen(box, nums) ==
    [i \in 1..Len(box) |->
        IF i \in nums /\ _parse_gitlab_email(box[i].m).parsed
        THEN [box[i] EXCEPT !.seen = TRUE] ELSE box[i]]

\* What get_new_gitlab_emails leaves: whether its commands succeeded, the
\* list it returns, the connection, the mailbox, and whether it established
\* the connection itself.
Fetched(status, emails, c, box, connected) ==
    [status |-> status, emails |-> emails, conn |-> c, inbox |-> box,
     connected |-> connected]

\* EmailMonitor.get_new_gitlab_emails: connect when self.connection is None,
\* then select and search on self.connection; [] when connect fails or a
\* command raises.
get_new_gitlab_emails(c, up, box) ==
    LET connected == IF c = "none" THEN connect(c, up)
                     ELSE [ok |-> TRUE, conn |-> c]
        fresh == c = "none" /\ connected.ok
    IN  IF ~connected.ok
        THEN Fetched("failed", <<>>, connected.conn, box, FALSE)
        ELSE IF connected.conn \notin {"auth", "selected"}
        THEN Fetched("failed", <<>>, connected.conn, box, fresh)
        ELSE LET nums == search_unseen(box)
             IN  Fetched("ok", NewEmails(box), "selected",
                         MarkSeen(fetch_rfc822(box, nums), nums), fresh)

(***************************************************************************)
(* MailboxMonitor.run_once and run_continuous.                             *)
(***************************************************************************)
\* The result of the health check ignored.
all_healthy_unchecked(results) == TRUE

\* The health check passing when one check does.
all_healthy_any(results) == \E i \in 1..Len(results) : results[i]

\* all(checks)
all_healthy(results) == \A i \in 1..Len(results) : results[i]

\* MailboxMonitor.health_check: the three checks in their order; the mailbox
\* check connects and, when that succeeded, disconnects.
health_check(c, up, ai_ok, gitlab_ok) ==
    LET connected == connect(c, up)
    IN  [checks |-> <<connected.ok, ai_ok, gitlab_ok>>,
         conn |-> IF connected.ok THEN disconnect(connected.conn)
                  ELSE connected.conn]

\* The for loop taking the last notification of the list first.
next_index_last(emails) == Len(emails)

\* for email_data in new_emails: the loop takes the first notification left.
next_index(emails) == 1

\* The loop left at the first notification that fails.
rest_until_failure(emails, i, ok) ==
    IF ok THEN [j \in 1..(Len(emails) - 1) |->
                   IF j < i THEN emails[j] ELSE emails[j + 1]]
    ELSE <<>>

\* A notification that failed kept in the list, to be processed again.
rest_retrying(emails, i, ok) ==
    IF ok THEN [j \in 1..(Len(emails) - 1) |->
                   IF j < i THEN emails[j] ELSE emails[j + 1]]
    ELSE emails

\* The notifications left once notification i is processed, whatever
\* process_gitlab_notification returned for it.
rest(emails, i, ok) ==
    [j \in 1..(Len(emails) - 1) |-> IF j < i THEN emails[j] ELSE emails[j + 1]]

\* process_gitlab_notification with its try/except: an exception raised in
\* the try block (fault) is logged and False returned.
guarded_notification(email_data, config, ai, trk, env, fault) ==
    IF fault
    THEN Processed("Skip", "exception", FALSE, 0, NoPrediction, NotInvoked(trk))
    ELSE process_gitlab_notification(email_data, config, ai, trk, env)

\* What run_once's log tells of a processed notification: the branch
\* process_gitlab_notification left by, and the workflow's when it ran.
Why(out) == IF out.action = "Apply" THEN out.wf.exit ELSE out.reason

\* The mailbox once message m was handed to process_gitlab_notification,
\* which returned ok.
Handed(box, m, ok) ==
    [k \in 1..Len(box) |->
        IF box[k].m = m
        THEN [box[k] EXCEPT !.handed = IF @ = "never" THEN "once" ELSE "again",
                            !.failed = ~ok]
        ELSE box[k]]

\* The entry of run_once's log for message m: what the call returned, the
\* branch it left by, the requests it sent to the prediction service and the
\* executions of the workflow it started.
Entry(m, out) ==
    [m |-> m, ret |-> out.ret, why |-> Why(out), ai_calls |-> out.ai_calls,
     runs |-> IF out.wf.exit = "not_invoked" THEN 0 ELSE 1]

\* What the prediction service and the tracker answer in the loop.
LoopAI ==
    { AIOutcome("timeout", NoResponse),
      AIOutcome("ok", Response(Str("bob"), Num(90), Str("owns the module"), List)) }
LoopEnv == {AllOk, [AllOk EXCEPT !.reassign = "error"]}

(***************************************************************************)
(* The state.                                                              *)
(***************************************************************************)
VARIABLES
    policy,     \* config['app'], fixed when the process starts
    tracker,    \* the tracker's issue: [assignee]
    settled,    \* the <<notification, assignee>> pairs of a successful
                \* reassignment since which the issue has not changed
    last,       \* the last call of process_gitlab_notification
    raw,        \* the response handed to _validate_prediction_response
    verdict,    \* its answer: "pending", "accept" or "invalid"
    email,      \* the subject and body handed to _extract_issue_info
    extracted,  \* what it returned, Pending before it has
    pc,         \* where the process is: "start" before the health check,
                \* "idle" between two cycles, "cycle" in run_once's loop,
                \* "failed_health" and "interrupted" once run_continuous has
                \* ended, "ended" once a one-shot mode has
    exit_code,  \* the exit code of the process, Running until it ends
    checks,     \* the list health_check built, <<>> before it has run
    mailbox_up, \* the IMAP server can be reached
    conn,       \* EmailMonitor.connection and the state of its session
    inbox,      \* the messages of the mailbox in the order they arrived,
                \* each with its read flag, how often it was handed to
                \* process_gitlab_notification ("never", "once", "again")
                \* and whether the last of these calls returned False
    fetch,      \* how the last get_new_gitlab_emails ended, and the parity
                \* of the number of calls of it
    fetched,    \* the list it returned
    batch,      \* the rest of that list run_once has still to process
    done,       \* the notifications run_once has processed in this cycle
    mode        \* what main was asked for: "continuous", "check_once"
                \* (--check-once) or "health_check" (--health-check)

\* The variables of the extractor.
extraction == <<email, extracted>>

\* The variables of the polling loop.
loop == <<pc, exit_code, checks, mailbox_up, conn, inbox, fetch, fetched,
          batch, done, mode>>

vars == <<policy, tracker, settled, last, raw, verdict, extraction, loop>>

\* The outcome of a call the workflow never made is no input of the step.
Unused(env, calls) ==
    LET made == {calls[i] : i \in 1..Len(calls)}
    IN  /\ "get_project_members" \notin made => env.members = "ok"
        /\ "get_issue" \notin made => env.issue = "ok"
        /\ "reassign_issue" \notin made => env.reassign = "ok"
        /\ "add_issue_comment" \notin made => env.comment = "ok"

\* The issue was not fetched.
NotFetched == "not_fetched"

\* The assignee the tracker held when the workflow fetched the issue.
Live(trk, wf) ==
    IF wf.exit \in {"already_assigned", "reassign_failed", "reassigned"}
    THEN trk.assignee ELSE NotFetched

\* What the state keeps of a call: its inputs (the notification, the answer
\* of the prediction service, the answers of the tracker, the assignee the
\* tracker held when the issue was fetched), whether the same notification
\* and recommendation were already reassigned with the issue unchanged
\* since, and what the call did.
Call(email_data, ai, env, live, again, out) ==
    [n |-> email_data, ai |-> ai, env |-> env, live |-> live, again |-> again,
     action |-> out.action, reason |-> out.reason, ret |-> out.ret,
     ai_calls |-> out.ai_calls, valid |-> out.prediction.ok,
     exit |-> out.wf.exit, calls |-> out.wf.calls,
     mutated |-> out.wf.mutated, commented |-> out.wf.commented,
     comment |-> out.wf.comment]

NoTracker == [assignee |-> NoAssignee]

NothingYet ==
    Call(Notification({}, NoUrl, ""), NotAsked, AllOk, NotFetched,
         FALSE,
         Processed("none", "none", FALSE, 0, NoPrediction, NotInvoked(NoTracker)))

PipeInit ==
    /\ policy \in Policies
    /\ tracker \in [assignee : Assignees]
    /\ settled = {}
    /\ last = NothingYet

AdapterIdle == raw = NoResponse /\ verdict = "pending"

\* _extract_issue_info has not returned.
Pending == [none |-> FALSE, keys |-> {"pending"}, values |-> <<>>]
NoEmail == [subject |-> Text(SubjectFields, {}), body |-> Text(BodyFields, {})]

ExtractorIdle == email = NoEmail /\ extracted = Pending

\* The process has not started.
Running == -1

\* What follows the return of run_once: sys.exit(0) in main under
\* --check-once, time.sleep and the next cycle in run_continuous.
after_run_once(m) ==
    IF m = "check_once" THEN [pc |-> "ended", exit_code |-> 0]
    ELSE [pc |-> "idle", exit_code |-> Running]

NoFetch == [status |-> "none", tick |-> FALSE, connected |-> FALSE]
NoChecks == <<>>
LoopIdle ==
    /\ pc = "start" /\ exit_code = Running /\ checks = NoChecks
    /\ mailbox_up = TRUE /\ conn = "none" /\ inbox = <<>>
    /\ fetch = NoFetch /\ fetched = <<>> /\ batch = <<>> /\ done = <<>>
    /\ mode = "continuous"

Init == PipeInit /\ AdapterIdle /\ ExtractorIdle /\ LoopIdle

\* One turn of run_once's loop over the notifications the mailbox query
\* returned: process_gitlab_notification(email_data), with what the
\* prediction service and the tracker answer to it.
ProcessNotification ==
    /\ \E email_data \in Notifications, ai \in AIOutcomes,
          env \in TrackerOutcomes :
          LET out == process_gitlab_notification(email_data, policy, ai,
                                                 tracker, env)
              target == out.prediction.result.recommended_assignee.s
          IN  /\ Unused(env, out.wf.calls)
              /\ last' = Call(email_data,
                              IF out.ai_calls = 0 THEN NotAsked ELSE ai, env,
                              Live(tracker, out.wf),
                              <<email_data, target>> \in settled, out)
              /\ tracker' = out.wf.tracker
              /\ settled' = IF out.wf.mutated
                            THEN {<<email_data, target>>}
                            ELSE settled
    /\ UNCHANGED <<policy, raw, verdict, extraction, loop>>

\* Somebody else changes the issue's assignee in the tracker.
Drift ==
    /\ \E a \in Assignees :
          /\ a # tracker.assignee
          /\ tracker' = [tracker EXCEPT !.assignee = a]
    /\ settled' = {}
    /\ UNCHANGED <<policy, last, raw, verdict, extraction, loop>>

Next == ProcessNotification \/ Drift

Spec == Init /\ [][Next]_vars

(***************************************************************************)
(* The prediction adapter alone: every shape of response is validated.     *)
(***************************************************************************)
RawResponses ==
    [recommended_assignee :
        {Missing, Str("bob"), Str(""), Num(7), Null, List},
     confidence :
        {Missing, Num(0), Num(90), Bool(TRUE), Bool(FALSE), Str("high"), Null},
     reasoning : {Missing, Str("owns the module"), Num(7), Null},
     alternatives : {Missing, List, Str("carol"), Null}]

AdapterInit ==
    /\ policy = [min_confidence |-> 70, dry_run |-> FALSE]
    /\ tracker = NoTracker
    /\ settled = {}
    /\ last = NothingYet
    /\ raw \in RawResponses
    /\ verdict = "pending"
    /\ ExtractorIdle
    /\ LoopIdle

\* result = response.json(); self._validate_prediction_response(result)
Validate ==
    /\ verdict = "pending"
    /\ verdict' = IF _validate_prediction_response(raw)
                  THEN "accept" ELSE "invalid"
    /\ UNCHANGED <<policy, tracker, settled, last, raw, extraction, loop>>

\* The next response arrives.
Receive ==
    /\ verdict # "pending"
    /\ raw' \in RawResponses
    /\ verdict' = "pending"
    /\ UNCHANGED <<policy, tracker, settled, last, extraction, loop>>

AdapterNext == Validate \/ Receive

SpecAdapter == AdapterInit /\ [][AdapterNext]_vars

(***************************************************************************)
(* The extractor alone: every subject and body is extracted.               *)
(***************************************************************************)
ExtractorInit ==
    /\ policy = [min_confidence |-> 70, dry_run |-> FALSE]
    /\ tracker = NoTracker
    /\ settled = {}
    /\ last = NothingYet
    /\ AdapterIdle
    /\ LoopIdle
    /\ email \in Emails
    /\ extracted = Pending

\* issue_info = self._extract_issue_info(subject, body)
Extract ==
    /\ extracted = Pending
    /\ extracted' = _extract_issue_info(email.subject, email.body)
    /\ UNCHANGED <<policy, tracker, settled, last, raw, verdict, email, loop>>

\* The next email is parsed.
NextEmail ==
    /\ extracted # Pending
    /\ email' \in Emails
    /\ extracted' = Pending
    /\ UNCHANGED <<policy, tracker, settled, last, raw, verdict, loop>>

ExtractorNext == Extract \/ NextEmail

SpecExtractor == ExtractorInit /\ [][ExtractorNext]_vars

(***************************************************************************)
(* The parsing of an email's texts, one function applied to one input.     *)
(***************************************************************************)
ParseInit ==
    /\ policy = [min_confidence |-> 70, dry_run |-> FALSE]
    /\ tracker = NoTracker
    /\ settled = {}
    /\ last = NothingYet
    /\ AdapterIdle
    /\ LoopIdle
    /\ email \in GateInputs \cup UrlInputs \cup SubjectInputs \cup PayloadInputs
    /\ extracted = Pending

\* parsed_email = self._parse_gitlab_email(email_message)
ParseMessage ==
    /\ extracted = Pending
    /\ email.what = "gate"
    /\ extracted' = _parse_gitlab_email_message(email)
    /\ UNCHANGED <<policy, tracker, settled, last, raw, verdict, email, loop>>

\* url_match = re.search(url_pattern, body), and later
\* parsed_url = self.parse_issue_url(issue_url)
ExtractUrl ==
    /\ extracted = Pending
    /\ email.what = "url"
    /\ extracted' = extract_and_resolve(email.path)
    /\ UNCHANGED <<policy, tracker, settled, last, raw, verdict, email, loop>>

\* The title and the issue number taken from the subject.
ExtractTitle ==
    /\ extracted = Pending
    /\ email.what = "subject"
    /\ extracted' = extract_from_subject(email.subject)
    /\ UNCHANGED <<policy, tracker, settled, last, raw, verdict, email, loop>>

\* payload = self._prepare_prediction_payload(issue_data): the payload, and
\* issue_data as the call leaves it (the call reads it only).
PreparePayload ==
    /\ extracted = Pending
    /\ email.what = "payload"
    /\ extracted' = [what |-> "payload",
                     payload |-> _prepare_prediction_payload(email.issue_data),
                     issue_data |-> email.issue_data]
    /\ UNCHANGED <<policy, tracker, settled, last, raw, verdict, email, loop>>

ParseNext == ParseMessage \/ ExtractUrl \/ ExtractTitle \/ PreparePayload

SpecParse == ParseInit /\ [][ParseNext]_vars

(***************************************************************************)
(* The process in continuous mode: run_continuous.                         *)
(***************************************************************************)
Alive == pc \in {"start", "idle", "cycle"}

LoopInit ==
    /\ policy = [min_confidence |-> 70, dry_run |-> FALSE]
    /\ tracker = [assignee |-> "alice"]
    /\ settled = {}
    /\ last = NothingYet
    /\ AdapterIdle
    /\ ExtractorIdle
    /\ LoopIdle

\* if not self.health_check(): sys.exit(1)
HealthCheck ==
    /\ pc = "start" /\ mode = "continuous"
    /\ \E ai_ok \in BOOLEAN, gitlab_ok \in BOOLEAN :
          LET health == health_check(conn, mailbox_up, ai_ok, gitlab_ok)
          IN  /\ checks' = health.checks
              /\ conn' = health.conn
              /\ pc' = IF all_healthy(health.checks) THEN "idle"
                       ELSE "failed_health"
              /\ exit_code' = IF all_healthy(health.checks) THEN Running ELSE 1
    /\ UNCHANGED <<policy, tracker, settled, last, raw, verdict, extraction,
                   mailbox_up, inbox, fetch, fetched, batch, done,
                   mode>>

\* run_once up to its loop: the fetch; with no new email it returns 0 and
\* run_continuous sleeps.
Fetch ==
    /\ pc = "idle" \/ (pc = "start" /\ mode = "check_once")
    /\ LET new_emails == get_new_gitlab_emails(conn, mailbox_up, inbox)
       IN  /\ fetch' = [status |-> new_emails.status, tick |-> ~fetch.tick,
                         connected |-> new_emails.connected]
           /\ conn' = new_emails.conn
           /\ inbox' = new_emails.inbox
           /\ fetched' = new_emails.emails
           /\ batch' = new_emails.emails
           /\ done' = <<>>
           /\ pc' = IF new_emails.emails = <<>>
                    THEN after_run_once(mode).pc ELSE "cycle"
           /\ exit_code' = IF new_emails.emails = <<>>
                           THEN after_run_once(mode).exit_code ELSE exit_code
    /\ UNCHANGED <<policy, tracker, settled, last, raw, verdict, extraction,
                   checks, mailbox_up, mode>>

\* One turn of run_once's loop; after the last one run_once returns and
\* run_continuous sleeps.
ProcessNext ==
    /\ pc = "cycle"
    /\ \E ai \in LoopAI, env \in LoopEnv, fault \in BOOLEAN :
          LET i == next_index(batch)
              email_data == _parse_gitlab_email(batch[i]).n
              out == guarded_notification(email_data, policy, ai, tracker,
                                          env, fault)
          IN  /\ done' = Append(done, Entry(batch[i], out))
              /\ inbox' = Handed(inbox, batch[i], out.ret)
              /\ batch' = rest(batch, i, out.ret)
              /\ tracker' = out.wf.tracker
              /\ pc' = IF rest(batch, i, out.ret) = <<>>
                       THEN after_run_once(mode).pc ELSE "cycle"
              /\ exit_code' = IF rest(batch, i, out.ret) = <<>>
                              THEN after_run_once(mode).exit_code
                              ELSE exit_code
    /\ UNCHANGED <<policy, settled, last, raw, verdict, extraction,
                   checks, mailbox_up, conn, fetch, fetched, mode>>

\* KeyboardInterrupt in the loop: cleanup() disconnects and main returns.
Interrupt ==
    /\ pc \in {"idle", "cycle"}
    /\ pc' = "interrupted"
    /\ exit_code' = 0
    /\ conn' = disconnect(conn)
    /\ UNCHANGED <<policy, tracker, settled, last, raw, verdict, extraction,
                   checks, mailbox_up, inbox, fetch, fetched, batch, done,
                   mode>>

\* A message arrives in the mailbox, unread.
Arrive ==
    /\ Alive
    /\ \E m \in Messages :
          /\ \A i \in 1..Len(inbox) : inbox[i].m # m
          /\ inbox' = Append(inbox, [m |-> m, seen |-> FALSE,
                                      handed |-> "never", failed |-> FALSE])
    /\ UNCHANGED <<policy, tracker, settled, last, raw, verdict, extraction,
                   pc, exit_code, checks, mailbox_up, conn, fetch, fetched,
                   batch, done,
                   mode>>

\* The IMAP server becomes unreachable: the socket of an open connection
\* breaks.
Outage ==
    /\ Alive
    /\ mailbox_up
    /\ mailbox_up' = FALSE
    /\ conn' = IF conn \in {"auth", "selected"} THEN "dead" ELSE conn
    /\ UNCHANGED <<policy, tracker, settled, last, raw, verdict, extraction,
                   pc, exit_code, checks, inbox, fetch, fetched, batch, done,
                   mode>>

\* The IMAP server can be reached again.
Recover ==
    /\ Alive
    /\ ~mailbox_up
    /\ mailbox_up' = TRUE
    /\ UNCHANGED <<policy, tracker, settled, last, raw, verdict, extraction,
                   pc, exit_code, checks, conn, inbox, fetch, fetched, batch,
                   done,
                   mode>>

LoopNext ==
    \/ HealthCheck \/ Fetch \/ ProcessNext \/ Interrupt
    \/ Arrive \/ Outage \/ Recover

SpecLoop == LoopInit /\ [][LoopNext]_vars

\* The loop goes on: the health check ends, time.sleep returns, and each
\* turn of run_once's loop ends.
SpecLoopLive ==
    /\ SpecLoop
    /\ WF_vars(HealthCheck) /\ WF_vars(Fetch) /\ WF_vars(ProcessNext)

(***************************************************************************)
(* The process in its one-shot modes: main with --health-check or          *)
(* --check-once.                                                           *)
(***************************************************************************)
CliInit ==
    /\ policy = [min_confidence |-> 70, dry_run |-> FALSE]
    /\ tracker = [assignee |-> "alice"]
    /\ settled = {}
    /\ last = NothingYet
    /\ AdapterIdle
    /\ ExtractorIdle
    /\ pc = "start" /\ exit_code = Running /\ checks = NoChecks
    /\ mailbox_up = TRUE /\ conn = "none" /\ inbox = <<>>
    /\ fetch = NoFetch /\ fetched = <<>> /\ batch = <<>> /\ done = <<>>
    /\ mode \in {"check_once", "health_check"}

\* if args.health_check: sys.exit(0) if monitor.health_check() else
\* sys.exit(1)
HealthOnly ==
    /\ pc = "start" /\ mode = "health_check"
    /\ \E ai_ok \in BOOLEAN, gitlab_ok \in BOOLEAN :
          LET health == health_check(conn, mailbox_up, ai_ok, gitlab_ok)
          IN  /\ checks' = health.checks
              /\ conn' = health.conn
              /\ pc' = "ended"
              /\ exit_code' = IF all_healthy(health.checks) THEN 0 ELSE 1
    /\ UNCHANGED <<policy, tracker, settled, last, raw, verdict, extraction,
                   mailbox_up, inbox, fetch, fetched, batch, done, mode>>

CliNext ==
    \/ HealthOnly \/ Fetch \/ ProcessNext
    \/ Arrive \/ Outage \/ Recover

SpecCli == CliInit /\ [][CliNext]_vars

(***************************************************************************)
(* EmailMonitor.monitor_continuously: the loop of the mailbox client, which *)
(* hands each new email to callback_func.                                  *)
(***************************************************************************)
\* The emails left to the for loop once callback_func was called for the
\* first of them: the try encloses the whole loop, so a callback that raises
\* ends the loop over new_emails.
after_callback(emails, raised) == IF raised THEN <<>> ELSE Tail(emails)

MonitorInit ==
    /\ policy = [min_confidence |-> 70, dry_run |-> FALSE]
    /\ tracker = [assignee |-> "alice"]
    /\ settled = {}
    /\ last = NothingYet
    /\ AdapterIdle
    /\ ExtractorIdle
    /\ pc = "idle" /\ exit_code = Running /\ checks = NoChecks
    /\ mailbox_up = TRUE /\ conn = "none" /\ inbox = <<>>
    /\ fetch = NoFetch /\ fetched = <<>> /\ batch = <<>> /\ done = <<>>
    /\ mode = "monitor"

\* new_emails = self.get_new_gitlab_emails(mailbox); with no new email the
\* loop sleeps.
MonitorFetch ==
    /\ pc = "idle" /\ mode = "monitor"
    /\ LET new_emails == get_new_gitlab_emails(conn, mailbox_up, inbox)
       IN  /\ fetch' = [status |-> new_emails.status, tick |-> ~fetch.tick,
                         connected |-> new_emails.connected]
           /\ conn' = new_emails.conn
           /\ inbox' = new_emails.inbox
           /\ fetched' = new_emails.emails
           /\ batch' = new_emails.emails
           /\ done' = <<>>
           /\ pc' = IF new_emails.emails = <<>> THEN "idle" ELSE "cycle"
    /\ UNCHANGED <<policy, tracker, settled, last, raw, verdict, extraction,
                   exit_code, checks, mailbox_up, mode>>

\* callback_func(email_data), which returns or raises; after the last email,
\* or in the except clause, the loop sleeps.
Callback ==
    /\ pc = "cycle" /\ mode = "monitor"
    /\ \E raised \in BOOLEAN :
          /\ done' = Append(done, [m |-> batch[1], raised |-> raised])
          /\ inbox' = Handed(inbox, batch[1], ~raised)
          /\ batch' = after_callback(batch, raised)
          /\ pc' = IF after_callback(batch, raised) = <<>>
                   THEN "idle" ELSE "cycle"
    /\ UNCHANGED <<policy, tracker, settled, last, raw, verdict, extraction,
                   exit_code, checks, mailbox_up, conn, fetch, fetched, mode>>

\* KeyboardInterrupt: break, then self.disconnect().
MonitorInterrupt ==
    /\ pc \in {"idle", "cycle"} /\ mode = "monitor"
    /\ pc' = "interrupted"
    /\ conn' = disconnect(conn)
    /\ UNCHANGED <<policy, tracker, settled, last, raw, verdict, extraction,
                   exit_code, checks, mailbox_up, inbox, fetch, fetched,
                   batch, done, mode>>

MonitorNext ==
    \/ MonitorFetch \/ Callback \/ MonitorInterrupt
    \/ Arrive \/ Outage \/ Recover

SpecMonitor == MonitorInit /\ [][MonitorNext]_vars

(***************************************************************************)
(* The claims.                                                             *)
(***************************************************************************)
\* A call of process_gitlab_notification has been made.
Processing == last.action # "none"

UrlPresent == "url" \in last.n.keys
AssigneePresent == "current_assignee" \in last.n.keys
Recommended == last.ai.body.recommended_assignee.s
\* The prediction's confidence in hundredths, 0 when it has none.
Confidence ==
    IF last.ai.body.confidence.t = "missing" THEN 0
    ELSE IF last.ai.body.confidence.t = "bool"
         THEN 100 * last.ai.body.confidence.n
    ELSE last.ai.body.confidence.n
WorkflowInvoked == last.exit # "not_invoked"
NoTrackerCall == last.calls = <<>> /\ ~last.mutated /\ ~last.commented

\* The six ordered rules of the decision, the first that matches winning. An
\* absent currentAssignee equals no recommended assignee.
SixRules ==
    IF ~UrlPresent THEN "Skip"
    ELSE IF ~last.valid THEN "Skip"
    ELSE IF Confidence < policy.min_confidence THEN "Skip"
    ELSE IF AssigneePresent /\ last.n.current_assignee = Recommended THEN "Skip"
    ELSE IF policy.dry_run THEN "SimulateApply"
    ELSE "Apply"

\* C1: for every notification, prediction and policy, the action of
\* process_gitlab_notification is the one the six ordered rules give (no url:
\* Skip; no usable prediction: Skip; confidence below the threshold: Skip;
\* currentAssignee equal to the recommended assignee: Skip; dry run:
\* SimulateApply; otherwise Apply), and the workflow runs exactly when the
\* action is Apply.
C1_DecisionFollowsSixRules ==
    Processing =>
        /\ last.action = SixRules
        /\ WorkflowInvoked <=> last.action = "Apply"

\* C2: a notification whose currentAssignee equals the prediction's
\* recommended assignee is skipped and the workflow is not invoked, whatever
\* the confidence, the threshold and the dry-run flag.
C2_SameAssigneeSkips ==
    (Processing /\ UrlPresent /\ last.valid /\ AssigneePresent
        /\ last.n.current_assignee = Recommended) =>
        /\ last.action = "Skip"
        /\ ~WorkflowInvoked
        /\ NoTrackerCall

\* C2's case: the confidence gate is passed, no dry run, and the call is left
\* by the already-assigned branch.
C2_Witness ==
    /\ last.reason = "already_assigned"
    /\ AssigneePresent
    /\ ~policy.dry_run
    /\ policy.min_confidence = 70

\* C3: once a notification has led to a successful reassignment to an
\* assignee and the issue has not changed since, processing the same
\* notification with the same recommendation again changes no assignee and
\* posts no comment.
C3_ReprocessingChangesNothing ==
    last.again => ~last.mutated /\ ~last.commented

\* C3's case: the same notification goes through the workflow a second time.
C3_Witness ==
    /\ last.again
    /\ last.action = "Apply"
    /\ last.exit = "already_assigned"
    /\ last.ret

\* Every gate before the dry-run check is passed; an absent currentAssignee
\* equals no recommended assignee.
PassesOtherGates ==
    /\ UrlPresent
    /\ last.valid
    /\ Confidence >= policy.min_confidence
    /\ ~(AssigneePresent /\ last.n.current_assignee = Recommended)

\* C4: while dry_run is set no call changes an assignee or posts a comment,
\* the workflow is never invoked, and a notification that passes every other
\* gate yields SimulateApply with no outcome of the workflow.
C4_DryRunPurity ==
    (Processing /\ policy.dry_run) =>
        /\ ~last.mutated /\ ~last.commented
        /\ ~WorkflowInvoked
        /\ PassesOtherGates => last.action = "SimulateApply"

\* C5: a valid prediction whose confidence is below the threshold is skipped
\* with no tracker call, a prediction without a confidence counting as 0; a
\* confidence equal to the threshold is not skipped by this gate.
C5_ConfidenceGate ==
    (Processing /\ UrlPresent /\ last.valid) =>
        /\ Confidence < policy.min_confidence =>
              /\ last.action = "Skip"
              /\ last.reason = "low_confidence"
              /\ NoTrackerCall
        /\ Confidence >= policy.min_confidence =>
              last.reason # "low_confidence"

\* C5's case: a prediction without a confidence stopped by the gate.
C5_Witness ==
    /\ last.reason = "low_confidence"
    /\ last.valid
    /\ last.ai.body.confidence.t = "missing"

\* The thresholds the decision is compared under.
Thresholds == {0, 55, 70, 90}

\* The decision of the last call's inputs under threshold m.
Under(m) ==
    process_gitlab_notification(last.n, [policy EXCEPT !.min_confidence = m],
                                last.ai, tracker, last.env)

\* C6: when the decision is Apply or SimulateApply it is the same under every
\* lower threshold, and lowering the threshold changes no Skip other than one
\* of the confidence gate.
C6_ConfidenceMonotone ==
    Processing =>
        \A m \in Thresholds :
            m <= policy.min_confidence =>
                /\ last.action \in {"Apply", "SimulateApply"} =>
                      Under(m).action = last.action
                /\ (last.action = "Skip" /\ last.reason # "low_confidence") =>
                      /\ Under(m).action = "Skip"
                      /\ Under(m).reason = last.reason

\* C6's case: an Apply under the threshold 0.7, which has lower thresholds.
C6_Witness ==
    /\ last.action = "Apply"
    /\ policy.min_confidence = 70
    /\ Confidence = 70

\* The prediction service gave nothing usable: the request failed or timed
\* out, the body was no JSON, or the response fails the validation.
Unusable ==
    \/ last.ai.kind \in {"timeout", "http_error", "bad_json"}
    \/ last.ai.kind = "ok"
        /\ \/ last.ai.body.recommended_assignee.t # "str"
           \/ last.ai.body.confidence.t \notin {"missing", "num", "bool"}
           \/ last.ai.body.alternatives.t \notin {"missing", "list"}

\* C7: an unusable prediction ends the notification: it is skipped, the
\* prediction service was asked once and not again, and the tracker is
\* neither queried nor changed.
C7_InvalidPredictionTerminal ==
    (Processing /\ UrlPresent /\ Unusable) =>
        /\ last.action = "Skip"
        /\ last.reason = "no_prediction"
        /\ last.ai_calls = 1
        /\ ~WorkflowInvoked
        /\ NoTrackerCall

\* C7's case: a response without recommended_assignee, in a run that would
\* otherwise reassign.
C7_Witness ==
    /\ last.reason = "no_prediction"
    /\ last.ai.kind = "ok"
    /\ last.ai.body.recommended_assignee.t = "missing"
    /\ ~policy.dry_run

\* C8: a response is accepted exactly when recommended_assignee is a string,
\* confidence, when present, is a number, and alternatives, when present, is
\* a sequence; no other field counts.
C8_AcceptedIffWellTyped ==
    verdict # "pending" =>
        (verdict = "accept" <=>
            /\ raw.recommended_assignee.t = "str"
            /\ raw.confidence.t \in {"missing", "num"}
            /\ raw.alternatives.t \in {"missing", "list"})

\* C9: a notification without url is skipped, and neither the prediction
\* service nor the tracker is called for it.
C9_NoUrlSkips ==
    (Processing /\ ~UrlPresent) =>
        /\ last.action = "Skip"
        /\ last.reason = "no_url"
        /\ last.ai_calls = 0
        /\ last.ai = NotAsked
        /\ ~WorkflowInvoked
        /\ NoTrackerCall

\* C9's case: a notification without url under a policy that would reassign.
C9_Witness ==
    /\ Processing
    /\ ~UrlPresent
    /\ AssigneePresent
    /\ ~policy.dry_run
    /\ policy.min_confidence = 0

WorkflowSteps ==
    <<"get_project_members", "get_issue", "reassign_issue", "add_issue_comment">>

IsPrefix(a, b) == Len(a) <= Len(b) /\ \A i \in 1..Len(a) : a[i] = b[i]

\* The url is of the shape /<group>/<project>[/-]/<kind>/<digits>.
Resolvable ==
    LET u == last.n.url
        k == IF Len(u) >= 3 /\ u[3] = "-" THEN 4 ELSE 3
    IN  /\ Len(u) > k
        /\ u[k] \in {"issues", "merge_requests"}
        /\ u[k + 1] \in {"42", "7"}
Eligible == last.env.members = "ok" /\ Recommended \in Members

\* C10: the workflow calls the tracker in the order members, issue, reassign,
\* comment; it returns a boolean in every case; and when resolving the url,
\* the eligibility check, the re-fetch or the reassignment fails it returns
\* False without any call of a later step.
C10_WorkflowStepsInOrder ==
    last.action = "Apply" =>
        /\ IsPrefix(last.calls, WorkflowSteps)
        /\ last.ret \in BOOLEAN
        /\ ~Resolvable => ~last.ret /\ last.calls = <<>>
        /\ (Resolvable /\ ~Eligible) =>
              ~last.ret /\ last.calls = SubSeq(WorkflowSteps, 1, 1)
        /\ (Resolvable /\ Eligible /\ last.env.issue # "ok") =>
              ~last.ret /\ last.calls = SubSeq(WorkflowSteps, 1, 2)
        /\ (Resolvable /\ Eligible /\ last.env.issue = "ok"
                /\ last.env.reassign # "ok") =>
              /\ ~last.ret
              /\ last.calls = SubSeq(WorkflowSteps, 1, 3)
              /\ ~last.mutated /\ ~last.commented
        /\ last.ret => Len(last.calls) \in {2, 4}

\* C10's case: the reassignment fails after the three steps before it.
C10_Witness ==
    /\ last.action = "Apply"
    /\ last.exit = "reassign_failed"
    /\ last.env.reassign = "no_user"

\* C11: an issue is reassigned, and a comment posted, only for a recommended
\* assignee that is in the member list the tracker returned; when the list
\* cannot be obtained, is empty or does not hold the assignee, the workflow
\* returns False having changed no assignee and posted no comment.
C11_OnlyMembersAssigned ==
    last.action = "Apply" =>
        /\ (last.mutated \/ last.commented) =>
              last.env.members = "ok" /\ Recommended \in Members
        /\ (Resolvable /\ ~Eligible) =>
              /\ last.exit = "not_eligible"
              /\ ~last.ret /\ ~last.mutated /\ ~last.commented

\* C11's case: the member list is obtained and the recommended assignee is
\* not in it.
C11_Witness ==
    /\ last.action = "Apply"
    /\ last.exit = "not_eligible"
    /\ last.env.members = "ok"
    /\ Recommended = "carol"

\* C12: when the issue as re-fetched from the tracker is already assigned to
\* the recommended assignee, the workflow returns True after the re-fetch,
\* changes no assignee and posts no comment, also when the notification named
\* another assignee.
C12_LiveAssigneeShortCircuits ==
    (last.action = "Apply" /\ last.live = Recommended) =>
        /\ last.exit = "already_assigned"
        /\ last.ret
        /\ last.calls = SubSeq(WorkflowSteps, 1, 2)
        /\ ~last.mutated /\ ~last.commented

\* C12's case: the notification names alice, the tracker already holds the
\* recommended bob, and no earlier call of the process reassigned the issue.
C12_Witness ==
    /\ last.action = "Apply"
    /\ ~last.again
    /\ AssigneePresent /\ last.n.current_assignee = "alice"
    /\ Recommended = "bob"
    /\ last.live = "bob"
    /\ last.ret /\ ~last.commented

\* C13: a comment is posted only by a workflow execution whose reassignment
\* succeeded; when reassign_issue fails (the tracker raises, or the user id
\* is not found) the workflow returns False and posts no comment.
C13_CommentOnlyAfterReassignment ==
    last.action = "Apply" =>
        /\ last.commented =>
              /\ last.mutated
              /\ last.env.reassign = "ok"
              /\ last.calls = WorkflowSteps
        /\ (last.live \notin {NotFetched, Recommended}
                /\ last.env.reassign # "ok") =>
              /\ ~last.ret
              /\ ~last.commented
              /\ "add_issue_comment" \notin {last.calls[i] : i \in 1..Len(last.calls)}

\* C13's case: the tracker raises in reassign_issue.
C13_Witness ==
    /\ last.action = "Apply"
    /\ last.exit = "reassign_failed"
    /\ last.env.reassign = "error"
    /\ ~last.ret

\* C14: when the reassignment succeeded and posting the comment failed, the
\* workflow returns True with no comment posted, and the issue stays with its
\* new assignee.
C14_CommentFailureNotFatal ==
    (last.exit = "reassigned" /\ last.env.comment = "error") =>
        /\ last.ret
        /\ last.mutated
        /\ ~last.commented
        /\ <<last.n, Recommended>> \in settled =>
              tracker.assignee = Recommended

\* C14's case: the comment fails after a reassignment, and nobody has changed
\* the issue since.
C14_Witness ==
    /\ last.exit = "reassigned"
    /\ last.env.comment = "error"
    /\ <<last.n, Recommended>> \in settled
    /\ tracker.assignee = Recommended
    /\ last.ret

\* C19: a notification without currentAssignee is never taken as already
\* assigned: with a valid prediction, the empty recommended assignee
\* included, that passes the confidence gate, the action is Apply or
\* SimulateApply.
C19_AbsentAssigneeNeverEqual ==
    (Processing /\ UrlPresent /\ ~AssigneePresent /\ last.valid
        /\ Confidence >= policy.min_confidence) =>
        /\ last.action \in {"Apply", "SimulateApply"}
        /\ last.reason # "already_assigned"

\* Some search of the extractor matched the subject or the body.
SomeMatch ==
    \/ \E f \in SubjectFields : email.subject[f].found
    \/ \E f \in BodyFields : email.body[f].found

\* C18: for every subject and body the extractor returns a notification and
\* not None, and when no pattern matches the notification it returns has no
\* field.
C18_ExtractionTotal ==
    extracted # Pending =>
        /\ ~extracted.none
        /\ ~SomeMatch => extracted.keys = {}

\* The notification processed last in this cycle failed: the prediction
\* service or the tracker failed, or an exception was raised.
FailedOne == done # <<>> /\ ~done[Len(done)].ret

\* The run of a cycle so far: every notification processed is the one the
\* fetch returned at that place.
ProcessedInOrder == \A i \in 1..Len(done) : done[i].m = fetched[i]

CycleHolds ==
    /\ pc = "idle" => Len(done) = Len(fetched) /\ ProcessedInOrder
    /\ pc = "cycle" => Len(done) < Len(fetched) /\ batch # <<>>
    /\ \A i \in 1..Len(done) :
          done[i].why \in {"exception", "no_prediction", "reassign_failed",
                           "not_eligible", "issue_not_fetched",
                           "url_unparseable"} => ~done[i].ret
    /\ done # <<>> => exit_code # 1

\* C15: a notification whose pipeline fails is counted as not processed, the
\* loop of run_once goes on to every other notification of the cycle, and
\* after the cycle run_continuous polls again (unless it is interrupted).
C15_FailureDoesNotEndLoop ==
    /\ []CycleHolds
    /\ FailedOne ~> (done = <<>> \/ pc = "interrupted")

\* C15's case: the prediction fails for the first of two notifications, and
\* the second one is processed.
C15_Witness ==
    /\ pc = "idle"
    /\ Len(done) = 2
    /\ done[1].why = "no_prediction" /\ ~done[1].ret
    /\ done[2].ret

\* C16: the notifications of a cycle are processed one after the other in
\* the order of the list the fetch returned, which is the order of the
\* mailbox: what is processed is a prefix of that list and what is left is
\* the rest of it.
C16_ProcessedInMailboxOrder ==
    /\ Len(done) <= Len(fetched)
    /\ ProcessedInOrder
    /\ pc = "cycle" => batch = SubSeq(fetched, Len(done) + 1, Len(fetched))
    /\ \A i \in 1..Len(fetched) : \A j \in 1..Len(fetched) :
          i < j => IndexOf(inbox, fetched[i]) < IndexOf(inbox, fetched[j])

\* C16's case: m3 arrived before m1, with a message that is not parsed
\* between them, and both were processed, m3 first.
C16_Witness ==
    /\ Len(inbox) = 3 /\ inbox[1].m = "m3" /\ inbox[2].m = "m2"
    /\ Len(done) = 2
    /\ done[1].m = "m3" /\ done[2].m = "m1"

\* C17: a fetch that fails ends the cycle with nothing processed and does not
\* end the process; and when the mailbox stays reachable from some cycle on,
\* fetches succeed again.
C17_FetchRecovers ==
    /\ [](fetch.status = "failed" =>
            fetched = <<>> /\ done = <<>> /\ exit_code # 1)
    /\ <>[](mailbox_up /\ pc \in {"idle", "cycle"}) =>
          []<>(fetch.status = "ok")

\* Every check of the health check passed.
Healthy == \A i \in 1..Len(checks) : checks[i]

\* C20: when a check of the initial health check fails the process ends with
\* exit code 1 having fetched nothing, marked no message read and changed no
\* assignee; once the health check has passed the process runs until it is
\* interrupted and never ends with exit code 1.
C20_OnlyInitialHealthCheckFatal ==
    /\ (checks # NoChecks /\ ~Healthy) =>
          /\ pc = "failed_health" /\ exit_code = 1
          /\ fetch = NoFetch /\ fetched = <<>> /\ done = <<>>
          /\ \A i \in 1..Len(inbox) : ~inbox[i].seen
          /\ tracker.assignee = "alice"
    /\ (checks # NoChecks /\ Healthy) =>
          /\ pc \in {"idle", "cycle", "interrupted"}
          /\ exit_code # 1
          /\ exit_code = 0 <=> pc = "interrupted"
    /\ checks = NoChecks => pc = "start" /\ fetch = NoFetch

\* C20's case: the mailbox is healthy and holds an unread notification, the
\* prediction service is not healthy.
C20_Witness ==
    /\ pc = "failed_health"
    /\ checks[1] /\ ~checks[2]
    /\ inbox # <<>> /\ inbox[1].m = "m1"

\* C21: with --health-check the exit code is 0 when the three checks of the
\* health check passed and 1 when one of them failed, and nothing is
\* fetched.
C21_HealthCheckExitCode ==
    (mode = "health_check" /\ pc = "ended") =>
        /\ Len(checks) = 3
        /\ exit_code = 0 <=> Healthy
        /\ exit_code = 1 <=> ~Healthy
        /\ fetch = NoFetch /\ done = <<>>

\* C21's case: the mailbox and the tracker are healthy, the prediction
\* service is not.
C21_Witness ==
    /\ mode = "health_check" /\ pc = "ended"
    /\ checks = <<TRUE, FALSE, TRUE>>
    /\ exit_code = 1

\* C22: with --check-once the exit code is 1 when the fetch of the cycle
\* failed, and 0 only when the cycle succeeded.
C22_CheckOnceExitCode ==
    (mode = "check_once" /\ pc = "ended") =>
        /\ fetch.status = "failed" => exit_code = 1
        /\ exit_code = 0 => fetch.status = "ok"

\* No element occurs twice in the sequence q.
NoDuplicate(q) ==
    \A i \in 1..Len(q) : \A j \in 1..Len(q) : q[i] = q[j] => i = j

\* C23: in a cycle no message is returned twice by the fetch, no
\* notification is processed twice, and the processing of a notification
\* sends one prediction request at most and runs the workflow once at most.
C23_AtMostOncePerCycle ==
    /\ NoDuplicate(fetched)
    /\ NoDuplicate([i \in 1..Len(done) |-> done[i].m])
    /\ Len(done) <= Len(fetched)
    /\ \A i \in 1..Len(done) :
          /\ done[i].ai_calls \in {0, 1}
          /\ done[i].runs \in {0, 1}
          /\ done[i].runs = 1 => done[i].ai_calls = 1

\* C23's case: a cycle of two notifications, the workflow ran for the first
\* and failed, and the second was processed.
C23_Witness ==
    /\ Len(fetched) = 2 /\ Len(done) = 2
    /\ done[1].runs = 1 /\ done[1].ai_calls = 1 /\ ~done[1].ret
    /\ done[2].ai_calls = 1

\* C30: a message the fetch returns is marked read by that fetch, before it
\* is handed to process_gitlab_notification, and no message is handed to it a
\* second time, one whose processing failed included.
C30_HandedOverAtMostOnce ==
    /\ \A k \in 1..Len(inbox) :
          /\ inbox[k].handed # "again"
          /\ inbox[k].handed = "once" => inbox[k].seen
          /\ inbox[k].failed => inbox[k].handed = "once"
    /\ \A i \in 1..Len(fetched) : inbox[IndexOf(inbox, fetched[i])].seen
    /\ \A i \in 1..Len(batch) :
          inbox[IndexOf(inbox, batch[i])].handed = "never"

\* C30's case: the processing of m1 failed in an earlier cycle, and a later
\* fetch returned m3 without it.
C30_Witness ==
    /\ \E k \in 1..Len(inbox) :
          /\ inbox[k].m = "m1" /\ inbox[k].failed
          /\ inbox[k].handed = "once"
    /\ fetch.status = "ok"
    /\ fetched = <<"m3">>
    /\ Len(done) = 1

\* The letters a and b are the same up to their case.
SameLetter(a, b) ==
    \/ a = b
    \/ \E k \in 1..Len(UpperLetters) :
          {a, b} = {UpperLetters[k], LowerLetters[k]}

\* The text s contains the text sub, the case of the letters ignored.
ContainsIgnoringCase(s, sub) ==
    \E i \in 0..(Len(s) - Len(sub)) :
        \A j \in 1..Len(sub) : SameLetter(s[i + j], sub[j])

\* The gate of C24 on the message e.
IsCandidate(e) ==
    \/ ContainsIgnoringCase(e.sender, <<"g", "i", "t", "l", "a", "b">>)
    \/ \E phrase \in {<<"a", "s", "s", "i", "g", "n", "e", "d", " ", "y", "o", "u">>,
                      <<"a", "s", "s", "i", "g", "n", "e", "e", " ", "c", "h", "a", "n", "g", "e", "d">>,
                      <<"w", "a", "s", " ", "a", "s", "s", "i", "g", "n", "e", "d", " ", "t", "o", " ", "y", "o", "u">>} :
          ContainsIgnoringCase(e.subject, phrase)

\* C24: a message goes past the gate into extraction exactly when its sender
\* contains 'gitlab' or its subject one of the three phrases, the case
\* ignored, and a message that does not yields no notification.
C24_CandidateGate ==
    (email.what = "gate" /\ extracted # Pending) =>
        /\ extracted.calls # <<>> <=> IsCandidate(email)
        /\ ~IsCandidate(email) => ~extracted.parsed
        /\ extracted.parsed => extracted.calls[Len(extracted.calls)] =
                                   "_extract_issue_info"

\* C24's case: the sender is not the tracker's, the subject has a phrase in
\* capitals, and the message is parsed.
C24_Witness ==
    /\ email.what = "gate" /\ extracted # Pending
    /\ email.sender = <<"b", "o", "b", "@", "x", ".", "i", "o">>
    /\ email.subject = <<"W", "a", "s", " ", "A", "s", "s", "i", "g", "n", "e", "d", " ", "T", "o", " ", "Y", "o", "u">>
    /\ extracted.parsed

\* The link of group, project, kind and id in the style with the '-' infix
\* or in the one without it.
Styled(group, project, dash, kind, id) ==
    <<group, project>> \o (IF dash THEN <<"-">> ELSE <<>>) \o <<kind, id>>

\* The two styles of a link resolve to the same pair.
SameStyles ==
    \A group \in {"team", "sub"}, project \in {"backend", "sub"},
       kind \in {"issues", "merge_requests"}, id \in {"42", "7"} :
        LET with == parse_issue_url(Styled(group, project, TRUE, kind, id))
            without == parse_issue_url(Styled(group, project, FALSE, kind, id))
        IN  /\ with.ok /\ with = without
            /\ with.project_path = <<group, project>>
            /\ with.issue_iid = ToInt(id)

\* C25: every url the extractor stores is resolved by parse_issue_url into a
\* project and an id, and the two styles of a link resolve to the same pair.
C25_ExtractorAndWorkflowAgree ==
    (email.what = "url" /\ extracted # Pending) =>
        /\ extracted.url.found => extracted.resolved.ok
        /\ SameStyles

\* The ways pattern k matches the whole subject s: from its start, and for
\* 'TITLE - Issue #N', which nothing follows, up to its end.
WholeMatches(k, s) ==
    {mt \in Matches(k, s) :
        mt.start = 1 /\ (k = 3 => mt.end = Len(s) + 1)}

\* The title of C26: the trimmed group of the first pattern that matches the
\* whole subject.
WholeSubjectTitle(s) ==
    LET matching == {k \in 1..4 : WholeMatches(k, s) # {}}
    IN  IF matching = {} THEN NoText
        ELSE LET k == CHOOSE k \in matching : \A j \in matching : k <= j
                 mt == Preferred(WholeMatches(k, s))
             IN  Found(strip(SubSeq(s, mt.from, mt.to - 1)))

C26_Example ==
    <<"I", "s", "s", "u", "e", " ", "#", "4", "2", ":", " ", "F", "i", "x",
      " ", "l", "o", "g", "i", "n", " ", "b", "u", "g", " ", "|", " ", "b",
      "a", "c", "k", "e", "n", "d">>

\* C26: the title is the trimmed group of the first of the four patterns
\* that matches the whole subject, and is absent when none does; the subject
\* 'Issue #42: Fix login bug | backend' yields 'Fix login bug' and '42'.
C26_TitleFromWholeSubject ==
    (email.what = "subject" /\ extracted # Pending) =>
        /\ extracted.title = WholeSubjectTitle(email.subject)
        /\ email.subject = C26_Example =>
              /\ extracted.title.text = <<"F", "i", "x", " ", "l", "o", "g", "i", "n", " ", "b",
                    "u", "g">>
              /\ extracted.issue_number.text = <<"4", "2">>

\* C27: the issue object of the request has the seven keys, each with the
\* notification's value or, without one, the empty string (the empty list
\* for labels), and priority and milestone exactly when the notification has
\* them, with its values; no other key; the notification is as it was.
C27_RequestFromNotification ==
    (email.what = "payload" /\ extracted # Pending) =>
        LET n == email.issue_data
            issue == extracted.payload.issue
        IN  /\ DOMAIN extracted.payload = {"issue"}
            /\ DOMAIN issue =
                  {"title", "description", "labels", "current_assignee",
                   "project", "url", "issue_number"}
                  \cup ({"priority", "milestone"} \cap DOMAIN n)
            /\ \A k \in DOMAIN issue \cap DOMAIN n : issue[k] = n[k]
            /\ \A k \in DOMAIN issue \ DOMAIN n :
                  IF k = "labels" THEN issue[k] = <<>> ELSE issue[k] = ""
            /\ extracted.issue_data = n

\* C27's case: a notification with a title and a priority and neither labels
\* nor a milestone.
C27_Witness ==
    /\ email.what = "payload" /\ extracted # Pending
    /\ DOMAIN email.issue_data = {"title", "priority"}
    /\ extracted.payload.issue["priority"] = "high"
    /\ extracted.payload.issue["labels"] = <<>>

\* The lines of the comment that are of the kind given.
LinesOf(comment, kind) ==
    {i \in 1..Len(comment) : comment[i].kind = kind}

\* The reasoning text the prediction carries, "" when it carries none.
ReasoningText ==
    IF last.ai.body.reasoning.t = "str" THEN last.ai.body.reasoning.s ELSE ""

\* C28: the comment posted names the assignee the tracker held at the
\* re-fetch ('unassigned' when it held none) and the recommended assignee,
\* has the reasoning section exactly when the prediction carries a reasoning
\* text that is not empty, ends with the separator and the footer, and is the
\* same for the same three inputs.
C28_AuditComment ==
    last.commented =>
        LET comment == last.comment
            size == Len(comment)
            old == IF last.live = NoAssignee THEN "unassigned" ELSE last.live
        IN  /\ last.live # NotFetched
            /\ LinesOf(comment, "reassigned from to") = {3}
            /\ comment[3].a = old /\ comment[3].b = Recommended
            /\ LinesOf(comment, "AI Reasoning:") # {} <=> ReasoningText # ""
            /\ LinesOf(comment, "reasoning") # {} <=> ReasoningText # ""
            /\ \A i \in LinesOf(comment, "reasoning") :
                  /\ comment[i].a = ReasoningText
                  /\ i > 1 /\ comment[i - 1].kind = "AI Reasoning:"
            /\ size >= 6
            /\ comment[size - 1].kind = "---"
            /\ comment[size].kind =
                  "made automatically by the mailbox-monitor service"
            /\ size = IF ReasoningText # "" THEN 9 ELSE 6

\* C28's case: a comment without reasoning posted on an issue nobody held.
C28_Witness ==
    /\ last.commented
    /\ last.live = NoAssignee
    /\ ReasoningText = ""
    /\ last.comment[3].a = "unassigned"
    /\ Len(last.comment) = 6

\* The url of the notification names a merge request.
OfMergeRequest ==
    \E i \in 1..Len(last.n.url) : last.n.url[i] = "merge_requests"

\* C29: for a url that names a merge request the workflow fetches no issue,
\* changes no issue's assignee and comments on no issue.
C29_OnlyTheEntityOfTheUrl ==
    (Processing /\ UrlPresent /\ OfMergeRequest) =>
        /\ \A i \in 1..Len(last.calls) :
              last.calls[i] \notin
                  {"get_issue", "reassign_issue", "add_issue_comment"}
        /\ ~last.mutated
        /\ ~last.commented
        /\ last.live = NotFetched

\* C31: a message is marked read exactly when it was parsed into a
\* notification; an unread message that is not parsed stays unread, and is
\* fetched again in every later cycle.
C31_ReadIffParsed ==
    \A k \in 1..Len(inbox) :
        /\ inbox[k].seen => _parse_gitlab_email(inbox[k].m).parsed
        /\ (fetch.status = "ok" /\ _parse_gitlab_email(inbox[k].m).parsed
               /\ pc = "cycle") => inbox[k].seen

\* disconnect() has been called on self.connection: the connection is logged
\* in with no mailbox selected (close() raised and logout() was not reached;
\* a connection get_new_gitlab_emails makes has a mailbox selected at once),
\* or it is logged out.
Disconnected == conn \in {"auth", "logout"}

\* C32: a call of get_new_gitlab_emails that finds a connection disconnect()
\* was called on establishes a new connection before it selects and
\* searches.
C32_NoQueryOnDisconnected ==
    [][(fetch' # fetch /\ Disconnected) => fetch'.connected]_vars

\* C33: when the loop of monitor_continuously sleeps after a batch, the
\* callback was invoked for every email of the batch, also for those after
\* one whose callback raised; and the loop ends by an interrupt only.
C33_CallbackFailureContained ==
    /\ pc \in {"idle", "cycle", "interrupted"}
    /\ (mode = "monitor" /\ pc = "idle") =>
          \A i \in 1..Len(fetched) :
              \E j \in 1..Len(done) : done[j].m = fetched[i]

====
